---- MODULE Spec2Model ----
(***************************************************************************)
(* Model of server.js: an Express application keeping a list of product    *)
(* records in memory.  A request walks the middleware stack registered for *)
(* its route; every stage either calls next(), calls next(err) (which      *)
(* hands the request to the global error handler) or sends the response.   *)
(*                                                                         *)
(* JavaScript values are tagged records, strings are sequences of          *)
(* one-character strings, so that typeof, truthiness, toLowerCase,         *)
(* includes, parseInt and slice are computed as the runtime computes them. *)
(***************************************************************************)
EXTENDS Integers, Sequences, FiniteSets, TLC

(* ----------------------------------------------------------------------- *)
(* Bounds                                                                  *)
(* ----------------------------------------------------------------------- *)

\* Number of POST requests that reach the create handler in one behaviour.
MaxCreates == 1

(* ----------------------------------------------------------------------- *)
(* JavaScript values                                                       *)
(* ----------------------------------------------------------------------- *)

Undef == [t |-> "undefined", s |-> <<>>, n |-> 0, b |-> FALSE]

Null == [t |-> "null", s |-> <<>>, n |-> 0, b |-> FALSE]

Str(s) == [t |-> "string", s |-> s, n |-> 0, b |-> FALSE]

Num(n) == [t |-> "number", s |-> <<>>, n |-> n, b |-> FALSE]

Bool(b) == [t |-> "boolean", s |-> <<>>, n |-> 0, b |-> b]

\* typeof v
TypeOf(v) == IF v.t = "null" THEN "object" ELSE v.t

\* ToBoolean(v), as used by !v and by v || w
Truthy(v) ==
    CASE v.t = "string" -> v.s /= <<>>
      [] v.t = "number" -> v.n /= 0
      [] v.t = "boolean" -> v.b
      [] OTHER -> FALSE

UpperCase == <<"A", "B", "C", "D", "E", "F", "G", "H", "I", "J", "K", "L", "M",
               "N", "O", "P", "Q", "R", "S", "T", "U", "V", "W", "X", "Y", "Z">>

LowerCase == <<"a", "b", "c", "d", "e", "f", "g", "h", "i", "j", "k", "l", "m",
               "n", "o", "p", "q", "r", "s", "t", "u", "v", "w", "x", "y", "z">>

LowerChar(c) ==
    IF \E i \in 1..Len(UpperCase) : UpperCase[i] = c
    THEN LowerCase[CHOOSE i \in 1..Len(UpperCase) : UpperCase[i] = c]
    ELSE c

\* String.prototype.toLowerCase
ToLowerCase(s) == [i \in 1..Len(s) |-> LowerChar(s[i])]

\* String.prototype.includes
Includes(s, sub) ==
    \E i \in 0..(Len(s) - Len(sub)) :
        \A j \in 1..Len(sub) : s[i + j] = sub[j]

Digits == <<"0", "1", "2", "3", "4", "5", "6", "7", "8", "9">>

IsDigit(c) == \E i \in 1..Len(Digits) : Digits[i] = c

DigitValue(c) == (CHOOSE i \in 1..Len(Digits) : Digits[i] = c) - 1

RECURSIVE ParseDigits(_, _)
\* value of the longest prefix of digits of s, acc being the value read so far
ParseDigits(s, acc) ==
    IF s = <<>> \/ ~IsDigit(Head(s)) THEN acc
    ELSE ParseDigits(Tail(s), acc * 10 + DigitValue(Head(s)))

\* JavaScript numbers as they come out of arithmetic on integers
NaN == [k |-> "NaN", n |-> 0]

Infinity == [k |-> "Infinity", n |-> 0]

Finite(n) == [k |-> "finite", n |-> n]

\* parseInt(v) for a number (the destructuring default) or a query string
ParseInt(v) ==
    CASE v.t = "number" -> Finite(v.n)
      [] v.t = "string" ->
            LET neg == v.s /= <<>> /\ Head(v.s) = "-"
                rest == IF neg THEN Tail(v.s) ELSE v.s
            IN  IF rest = <<>> \/ ~IsDigit(Head(rest)) THEN NaN
                ELSE Finite(IF neg THEN 0 - ParseDigits(rest, 0)
                                  ELSE ParseDigits(rest, 0))
      [] OTHER -> NaN

Min(a, b) == IF a < b THEN a ELSE b

Max(a, b) == IF a < b THEN b ELSE a

\* Array.prototype.slice(start, end) with 0-based, possibly negative, indices
Slice(arr, start, end) ==
    LET len == Len(arr)
        k == IF start < 0 THEN Max(len + start, 0) ELSE Min(start, len)
        f == IF end < 0 THEN Max(len + end, 0) ELSE Min(end, len)
    IN  SubSeq(arr, k + 1, f)

\* ToIntegerOrInfinity of a slice argument: NaN counts as 0
SliceIndex(x) == IF x.k = "finite" THEN x.n ELSE 0

\* x * y and x - 1 on numbers that may be NaN
Times(x, y) == IF x.k = "finite" /\ y.k = "finite" THEN Finite(x.n * y.n) ELSE NaN

MinusOne(x) == IF x.k = "finite" THEN Finite(x.n - 1) ELSE NaN

\* Math.ceil(a / b) for an array length a and a parsed number b
CeilDiv(a, b) ==
    CASE b.k /= "finite" -> NaN
      [] b.n = 0 -> IF a = 0 THEN NaN ELSE Infinity
      [] b.n > 0 -> Finite(IF a % b.n = 0 THEN a \div b.n ELSE (a \div b.n) + 1)
      [] OTHER -> Finite(0 - (a \div (0 - b.n)))

(* ----------------------------------------------------------------------- *)
(* Configuration, error classes, data store                                *)
(* ----------------------------------------------------------------------- *)

\* process.env.API_KEY || 'default-secret-key-fallback'
API_KEY == Str(<<"d", "e", "f", "a", "u", "l", "t", "-", "s", "e", "c", "r", "e", "t",
                 "-", "k", "e", "y", "-", "f", "a", "l", "l", "b", "a", "c", "k">>)

Fields == {"id", "name", "description", "price", "category", "inStock"}

\* an object literal with none of the product fields
EmptyObject == [f \in Fields |-> Undef]

\* { ...base, ...over }: own properties of over replace those of base
Spread(base, over) ==
    [f \in Fields |-> IF over[f] /= Undef THEN over[f] ELSE base[f]]

NoError == [name |-> "none", statusCode |-> 0, message |-> "", id |-> <<>>,
            details |-> <<>>]

NotFoundError(message, id) ==
    [name |-> "NotFoundError", statusCode |-> 404, message |-> message,
     id |-> id, details |-> <<>>]

ValidationError(message, details) ==
    [name |-> "ValidationError", statusCode |-> 400, message |-> message,
     id |-> <<>>, details |-> details]

AuthenticationError(message) ==
    [name |-> "AuthenticationError", statusCode |-> 401, message |-> message,
     id |-> <<>>, details |-> <<>>]

\* the TypeError the runtime throws for undefined.toLowerCase() and the like
TypeError(message) ==
    [name |-> "TypeError", statusCode |-> 0, message |-> message,
     id |-> <<>>, details |-> <<>>]

SeedProducts ==
    << [id |-> Str(<<"1">>),
        name |-> Str(<<"L", "a", "p", "t", "o", "p">>),
        description |-> Str(<<"H", "i", "g", "h", "-", "p", "e", "r", "f", "o", "r",
                              "m", "a", "n", "c", "e", " ", "l", "a", "p", "t", "o",
                              "p", " ", "w", "i", "t", "h", " ", "1", "6", "G", "B",
                              " ", "R", "A", "M">>),
        price |-> Num(1200),
        category |-> Str(<<"e", "l", "e", "c", "t", "r", "o", "n", "i", "c", "s">>),
        inStock |-> Bool(TRUE)],
       [id |-> Str(<<"2">>),
        name |-> Str(<<"S", "m", "a", "r", "t", "p", "h", "o", "n", "e">>),
        description |-> Str(<<"L", "a", "t", "e", "s", "t", " ", "m", "o", "d", "e",
                              "l", " ", "w", "i", "t", "h", " ", "1", "2", "8", "G",
                              "B", " ", "s", "t", "o", "r", "a", "g", "e">>),
        price |-> Num(800),
        category |-> Str(<<"e", "l", "e", "c", "t", "r", "o", "n", "i", "c", "s">>),
        inStock |-> Bool(TRUE)],
       [id |-> Str(<<"3">>),
        name |-> Str(<<"C", "o", "f", "f", "e", "e", " ", "M", "a", "k", "e", "r">>),
        description |-> Str(<<"P", "r", "o", "g", "r", "a", "m", "m", "a", "b", "l",
                              "e", " ", "c", "o", "f", "f", "e", "e", " ", "m", "a",
                              "k", "e", "r", " ", "w", "i", "t", "h", " ", "t", "i",
                              "m", "e", "r">>),
        price |-> Num(50),
        category |-> Str(<<"k", "i", "t", "c", "h", "e", "n">>),
        inStock |-> Bool(FALSE)] >>

\* the k-th value returned by uuidv4(): a string no earlier call returned
Uuid(k) == <<"u", "u", "i", "d", "-", Digits[k + 1]>>

(* ----------------------------------------------------------------------- *)
(* State                                                                   *)
(* ----------------------------------------------------------------------- *)

VARIABLES
    products,   \* the module-level array `products`
    uuids,      \* number of uuidv4() calls made so far
    pc,         \* "idle", "global" (app.use middleware), "chain" (the route's
                \* stack), "error" (next(err) was called), "done" (answered)
    req,        \* the request being handled
    stage,      \* index into the current stack of the stage about to run
    ran,        \* names of the route's stages and of the terminal handlers that
                \* have run for req, in order
    err,        \* the error passed to next(err)
    res,        \* the response sent for req
    pre,        \* `products` as it was when req arrived
    clients,    \* the requests of the connections open at the same time, each
                \* with its position in its stack and its handler's locals
    running,    \* the connection whose callback the event loop is executing
    order       \* the connections in the order their requests were answered

vars == <<products, uuids, pc, req, stage, ran, err, res, pre, clients, running, order>>

NoRequest ==
    [route |-> "none", id |-> <<>>, key |-> Undef, body |-> EmptyObject,
     q |-> Undef, category |-> Undef, page |-> Undef, limit |-> Undef,
     malformed |-> FALSE, url |-> <<>>]

NoResponse ==
    [status |-> 0, kind |-> "none", product |-> EmptyObject, products |-> <<>>,
     totalItems |-> 0, totalPages |-> 0, currentPage |-> NaN,
     message |-> "", id |-> <<>>, hasDetails |-> FALSE, details |-> <<>>,
     totalProducts |-> 0, inStockCount |-> 0, countByCategory |-> <<>>]

\* the connections that may be open at the same time
Slots == {"a", "b"}

\* a connection on which no request was sent
NoClient ==
    [request |-> NoRequest, phase |-> "none", stage |-> 1, step |-> 1,
     productIndex |-> 0, initialLength |-> 0, newProduct |-> EmptyObject,
     statusCode |-> 0, status |-> 0]

\* the stacks with validateProduct registered before authenticateMiddleware
Stack_ValidateFirst(route) ==
    CASE route = "create" -> <<"validateProduct", "authenticateMiddleware", "createProduct">>
      [] route = "update" -> <<"validateProduct", "authenticateMiddleware", "updateProduct">>
      [] route = "list" -> <<"listProducts">>
      [] route = "search" -> <<"searchProducts">>
      [] route = "get" -> <<"getProduct">>
      [] route = "delete" -> <<"deleteProduct">>
      [] route = "stats" -> <<"productStats">>
      [] route = "root" -> <<"welcome">>
      [] route = "unmatched" -> <<"routeNotFound">>

\* the middleware and handler registered for each route, in registration order
Stack(route) ==
    CASE route = "create" -> <<"authenticateMiddleware", "validateProduct", "createProduct">>
      [] route = "update" -> <<"authenticateMiddleware", "validateProduct", "updateProduct">>
      [] route = "list" -> <<"listProducts">>
      [] route = "search" -> <<"searchProducts">>
      [] route = "get" -> <<"getProduct">>
      [] route = "delete" -> <<"deleteProduct">>
      [] route = "stats" -> <<"productStats">>
      [] route = "root" -> <<"welcome">>
      [] route = "unmatched" -> <<"routeNotFound">>

\* the middleware registered with app.use before the routes
GlobalStack == <<"loggerMiddleware", "bodyParser">>

\* the global middleware about to run is `name`
AtGlobalStage(name) ==
    /\ pc = "global"
    /\ GlobalStack[stage] = name

\* the stage about to run is `name`
AtStage(name) ==
    /\ pc = "chain"
    /\ stage <= Len(Stack(req.route))
    /\ Stack(req.route)[stage] = name

\* next(): control passes to the following stage of the stack
CallNext(name) ==
    /\ ran' = Append(ran, name)
    /\ stage' = stage + 1
    /\ UNCHANGED <<products, pc, req, err, res, pre, clients, running, order>>

\* next(e): control passes to the global error handler
CallNextError(name, e) ==
    /\ ran' = Append(ran, name)
    /\ err' = e
    /\ pc' = "error"
    /\ UNCHANGED <<products, req, stage, res, pre, clients, running, order>>

\* a handler changes the store to newProducts and sends response r
Respond(name, newProducts, r) ==
    /\ ran' = Append(ran, name)
    /\ products' = newProducts
    /\ res' = r
    /\ pc' = "done"
    /\ UNCHANGED <<req, stage, err, pre, clients, running, order>>

Init ==
    /\ products = SeedProducts
    /\ uuids = 0
    /\ pc = "idle"
    /\ req = NoRequest
    /\ stage = 1
    /\ ran = <<>>
    /\ err = NoError
    /\ res = NoResponse
    /\ pre = SeedProducts
    /\ clients = [c \in Slots |-> NoClient]
    /\ running = "none"
    /\ order = <<>>

(* ----------------------------------------------------------------------- *)
(* Middleware                                                              *)
(* ----------------------------------------------------------------------- *)

\* the logger written without its call of next(): the request is left hanging
loggerMiddleware_NoNext ==
    /\ AtGlobalStage("loggerMiddleware")
    /\ pc' = "hung"
    /\ UNCHANGED <<products, uuids, stage, req, ran, err, res, pre, clients, running, order>>

\* logs the request line and calls next(); it never ends the request
loggerMiddleware ==
    /\ AtGlobalStage("loggerMiddleware")
    /\ stage' = stage + 1
    /\ UNCHANGED <<products, uuids, pc, req, ran, err, res, pre, clients, running, order>>

\* the error bodyParser.json() passes to next() for a body that is not JSON:
\* an http-errors error with statusCode 400 and the parser's message
BodyParseError ==
    [name |-> "SyntaxError", statusCode |-> 400,
     message |-> "Unexpected token in JSON", id |-> <<>>, details |-> <<>>]

\* parses the JSON body into req.body and calls next(), or next(err)
bodyParser ==
    /\ AtGlobalStage("bodyParser")
    /\ IF req.malformed
       THEN /\ err' = BodyParseError
            /\ pc' = "error"
            /\ UNCHANGED <<products, uuids, req, stage, ran, res, pre, clients, running, order>>
       ELSE /\ pc' = "chain"
            /\ stage' = 1
            /\ UNCHANGED <<products, uuids, req, ran, err, res, pre, clients, running, order>>

\* the check written as `apiKey && apiKey !== API_KEY`: a missing key passes
AuthRejects_MissingPasses(apiKey) == Truthy(apiKey) /\ apiKey /= API_KEY

\* the condition under which authenticateMiddleware rejects the request
AuthRejects(apiKey) == ~Truthy(apiKey) \/ apiKey /= API_KEY

authenticateMiddleware ==
    /\ AtStage("authenticateMiddleware")
    /\ UNCHANGED uuids
    /\ IF AuthRejects(req.key)
       THEN CallNextError("authenticateMiddleware",
                AuthenticationError("Authentication failed. Invalid or missing API key."))
       ELSE CallNext("authenticateMiddleware")

NameError(body) ==
    IF ~Truthy(body.name) \/ TypeOf(body.name) /= "string" \/ Len(body.name.s) < 3
    THEN <<"Name: required, string, min 3 characters.">> ELSE <<>>

PriceError(body) ==
    IF body.price = Undef \/ TypeOf(body.price) /= "number" \/ body.price.n <= 0
    THEN <<"Price: required, positive number.">> ELSE <<>>

CategoryError(body) ==
    IF ~Truthy(body.category) \/ TypeOf(body.category) /= "string"
    THEN <<"Category: required, string.">> ELSE <<>>

InStockError(body) ==
    IF body.inStock /= Undef /\ TypeOf(body.inStock) /= "boolean"
    THEN <<"inStock: must be a boolean (true/false) if provided.">> ELSE <<>>

\* the checks chained with else-if: only the first defect is reported
ValidationErrors_FirstOnly(body) ==
    LET all == NameError(body) \o PriceError(body) \o CategoryError(body)
                   \o InStockError(body)
    IN  IF all = <<>> THEN <<>> ELSE <<Head(all)>>

\* the checks relaxed to the properties the body has: a partial body passes
ValidationErrors_Partial(body) ==
    (IF body.name = Undef THEN <<>> ELSE NameError(body))
        \o (IF body.price = Undef THEN <<>> ELSE PriceError(body))
        \o (IF body.category = Undef THEN <<>> ELSE CategoryError(body))
        \o InStockError(body)

\* the array `errors` built by validateProduct
ValidationErrors(body) ==
    NameError(body) \o PriceError(body) \o CategoryError(body) \o InStockError(body)

validateProduct ==
    /\ AtStage("validateProduct")
    /\ UNCHANGED uuids
    /\ LET errors == ValidationErrors(req.body)
       IN  IF Len(errors) > 0
           THEN CallNextError("validateProduct",
                    ValidationError("Product data validation failed.", errors))
           ELSE CallNext("validateProduct")

(* ----------------------------------------------------------------------- *)
(* Route handlers                                                          *)
(* ----------------------------------------------------------------------- *)

\* res.json(body) / res.status(code).json(body) for the shapes the routes send
ProductResponse(status, product) ==
    [NoResponse EXCEPT !.status = status, !.kind = "product", !.product = product]

ArrayResponse(list) ==
    [NoResponse EXCEPT !.status = 200, !.kind = "array", !.products = list]

EmptyResponse(status) ==
    [NoResponse EXCEPT !.status = status, !.kind = "empty"]

\* p.category.toLowerCase() === category.toLowerCase()
CategoryMatches(p, category) ==
    ToLowerCase(p.category.s) = ToLowerCase(category.s)

\* filteredProducts after the optional category filter
FilterByCategory(list, category) ==
    IF Truthy(category)
    THEN LET Test(p) == CategoryMatches(p, category) IN SelectSeq(list, Test)
    ELSE list

\* const { category, page = 1, limit = 10 } = req.query; parseInt of each
PageNum(page) == ParseInt(IF page = Undef THEN Num(1) ELSE page)

LimitNum(limit) == ParseInt(IF limit = Undef THEN Num(10) ELSE limit)

\* the window computed with startIndex = pageNum * limitNum (pages counted from 0)
PageSlice_ZeroBased(filtered, pageNum, limitNum) ==
    LET startIndex == Times(pageNum, limitNum)
        endIndex == Times(Finite(pageNum.n + 1), limitNum)
    IN  Slice(filtered, SliceIndex(startIndex), SliceIndex(endIndex))

\* filteredProducts.slice(startIndex, endIndex)
PageSlice(filtered, pageNum, limitNum) ==
    LET startIndex == Times(MinusOne(pageNum), limitNum)
        endIndex == Times(pageNum, limitNum)
    IN  Slice(filtered, SliceIndex(startIndex), SliceIndex(endIndex))

\* the object `results` built by GET /api/products
ListResults(list, category, page, limit) ==
    LET filtered == FilterByCategory(list, category)
        pageNum == PageNum(page)
        limitNum == LimitNum(limit)
    IN  [NoResponse EXCEPT
            !.status = 200,
            !.kind = "page",
            !.totalItems = Len(filtered),
            !.totalPages = CeilDiv(Len(filtered), limitNum),
            !.currentPage = pageNum,
            !.products = PageSlice(filtered, pageNum, limitNum)]

listProducts ==
    /\ AtStage("listProducts")
    /\ Respond("listProducts", products,
               ListResults(products, req.category, req.page, req.limit))
    /\ UNCHANGED uuids

\* (stored names are strings and stored descriptions strings or absent, as
\* validateProduct and the request bodies below leave them)
\* evaluating the search predicate on p throws: p.description.toLowerCase() is
\* reached (the name does not contain the query) and description is no string
SearchThrows(p, searchQuery) ==
    /\ ~Includes(ToLowerCase(p.name.s), searchQuery)
    /\ TypeOf(p.description) /= "string"

\* the search predicate on a product on which it does not throw
SearchMatches(p, searchQuery) ==
    \/ Includes(ToLowerCase(p.name.s), searchQuery)
    \/ Includes(ToLowerCase(p.description.s), searchQuery)

searchProducts ==
    /\ AtStage("searchProducts")
    /\ UNCHANGED uuids
    /\ IF ~Truthy(req.q)
       THEN CallNextError("searchProducts",
                ValidationError("Search query (q) parameter is required.", <<>>))
       ELSE LET searchQuery == ToLowerCase(req.q.s)
                Throws(p) == SearchThrows(p, searchQuery)
                Test(p) == SearchMatches(p, searchQuery)
            IN  IF \E i \in 1..Len(products) : Throws(products[i])
                THEN CallNextError("searchProducts",
                         TypeError("Cannot read properties of undefined (reading 'toLowerCase')"))
                ELSE Respond("searchProducts", products,
                             ArrayResponse(SelectSeq(products, Test)))

\* products.findIndex(p => p.id === id), 1-based, 0 when there is none
FindIndex(list, id) ==
    IF \E i \in 1..Len(list) : list[i].id = Str(id)
    THEN CHOOSE i \in 1..Len(list) :
            /\ list[i].id = Str(id)
            /\ \A j \in 1..(i - 1) : list[j].id /= Str(id)
    ELSE 0

getProduct ==
    /\ AtStage("getProduct")
    /\ UNCHANGED uuids
    /\ LET i == FindIndex(products, req.id)
       IN  IF i = 0
           THEN CallNextError("getProduct",
                    NotFoundError("Product with id ${id} not found.", req.id))
           ELSE Respond("getProduct", products, ProductResponse(200, products[i]))

\* the literal written as { id: uuidv4(), ...req.body }: no default for inStock
NewProduct_NoDefault(uuid, body) ==
    Spread([EmptyObject EXCEPT !.id = Str(uuid)], body)

\* { id: uuidv4(), ...req.body, inStock: ... }
NewProduct(uuid, body) ==
    Spread(Spread([EmptyObject EXCEPT !.id = Str(uuid)], body),
           [EmptyObject EXCEPT
               !.inStock = IF body.inStock /= Undef THEN body.inStock ELSE Bool(TRUE)])

createProduct ==
    /\ AtStage("createProduct")
    /\ uuids' = uuids + 1
    /\ LET newProduct == NewProduct(Uuid(uuids + 1), req.body)
       IN  Respond("createProduct", Append(products, newProduct),
                   ProductResponse(201, newProduct))

\* the literal written as { ...products[productIndex], id: id, ...req.body }
UpdatedProduct_BodyLast(old, body, id) ==
    Spread(Spread(old, [EmptyObject EXCEPT !.id = Str(id)]), body)

\* the literal written as { ...req.body, id: id }: the record is replaced
UpdatedProduct_Replace(old, body, id) ==
    Spread(body, [EmptyObject EXCEPT !.id = Str(id)])

\* { ...products[productIndex], ...req.body, id: id }
UpdatedProduct(old, body, id) ==
    Spread(Spread(old, body), [EmptyObject EXCEPT !.id = Str(id)])

updateProduct ==
    /\ AtStage("updateProduct")
    /\ UNCHANGED uuids
    /\ LET productIndex == FindIndex(products, req.id)
       IN  IF productIndex = 0
           THEN CallNextError("updateProduct",
                    NotFoundError("Product with id ${id} not found for update.", req.id))
           ELSE LET updated == UpdatedProduct(products[productIndex], req.body, req.id)
                IN  Respond("updateProduct",
                            [products EXCEPT ![productIndex] = updated],
                            ProductResponse(200, updated))

\* the removal written with findIndex and splice: only the first match goes
WithoutId_FirstOnly(list, id) ==
    LET i == FindIndex(list, id)
    IN  IF i = 0 THEN list
        ELSE SubSeq(list, 1, i - 1) \o SubSeq(list, i + 1, Len(list))

\* the filter written with === : only the products with the id are kept
WithoutId_Negated(list, id) ==
    LET Test(p) == p.id = Str(id) IN SelectSeq(list, Test)

\* products.filter(p => p.id !== id)
WithoutId(list, id) ==
    LET Test(p) == p.id /= Str(id) IN SelectSeq(list, Test)

deleteProduct ==
    /\ AtStage("deleteProduct")
    /\ UNCHANGED uuids
    /\ LET remaining == WithoutId(products, req.id)
       IN  IF Len(remaining) = Len(products)
           THEN /\ products' = remaining
                /\ ran' = Append(ran, "deleteProduct")
                /\ err' = NotFoundError("Product with id ${id} not found for deletion.",
                                        req.id)
                /\ pc' = "error"
                /\ UNCHANGED <<req, stage, res, pre, clients, running, order>>
           ELSE Respond("deleteProduct", remaining, EmptyResponse(204))

\* names every object inherits from Object.prototype (those used as categories
\* below); reading them on {} yields a function or object, not undefined
ObjectPrototypeKeys ==
    {<<"c", "o", "n", "s", "t", "r", "u", "c", "t", "o", "r">>,
     <<"t", "o", "S", "t", "r", "i", "n", "g">>,
     <<"_", "_", "p", "r", "o", "t", "o", "_", "_">>}

\* String(f) of the inherited member f = Object.prototype.constructor, kept as
\* one piece of text (the other members differ in the text only)
InheritedText == <<"function Object() { [native code] }">>

\* (acc[key] || 0) + 1 for the accumulator object acc
Incremented(acc, key) ==
    IF key \in DOMAIN acc
    THEN IF acc[key].t = "number" THEN Num(acc[key].n + 1)
         ELSE Str(acc[key].s \o <<"1">>)
    ELSE IF key \in ObjectPrototypeKeys THEN Str(InheritedText \o <<"1">>)
         ELSE Num(1)

\* acc[key] = value; assigning a primitive to __proto__ is ignored
Assigned(acc, key, value) ==
    IF key = <<"_", "_", "p", "r", "o", "t", "o", "_", "_">> THEN acc
    ELSE [k \in (DOMAIN acc) \cup {key} |-> IF k = key THEN value ELSE acc[k]]

RECURSIVE CountByCategory(_, _)
\* products.reduce((acc, product) => { acc[product.category] = ...; return acc }, acc)
CountByCategory(list, acc) ==
    IF list = <<>> THEN acc
    ELSE LET key == Head(list).category.s
         IN  CountByCategory(Tail(list), Assigned(acc, key, Incremented(acc, key)))

\* products.filter(p => p.inStock).length
InStockCount(list) == Cardinality({i \in 1..Len(list) : Truthy(list[i].inStock)})

\* the object sent by GET /api/products/stats
StatsResults(list) ==
    [NoResponse EXCEPT
        !.status = 200,
        !.kind = "stats",
        !.totalProducts = Len(list),
        !.inStockCount = InStockCount(list),
        !.countByCategory = CountByCategory(list, <<>>)]

productStats ==
    /\ AtStage("productStats")
    /\ UNCHANGED uuids
    /\ Respond("productStats", products, StatsResults(products))

\* GET /: res.send of the welcome text
welcome ==
    /\ AtStage("welcome")
    /\ UNCHANGED uuids
    /\ Respond("welcome", products,
               [NoResponse EXCEPT !.status = 200, !.kind = "text",
                   !.message = "Welcome to the Product API! Go to /api/products to see all products."])

\* the catch-all registered after the routes: 404 with the requested url
routeNotFound ==
    /\ AtStage("routeNotFound")
    /\ UNCHANGED uuids
    /\ Respond("routeNotFound", products,
               [NoResponse EXCEPT !.status = 404, !.kind = "routeNotFound",
                   !.message = "Route ${req.originalUrl} not found.",
                   !.id = req.url])

(* ----------------------------------------------------------------------- *)
(* Global error handler                                                    *)
(* ----------------------------------------------------------------------- *)

\* the handler attaching details to every ValidationError, also an empty list
ErrorResponse_AlwaysDetails(e) ==
    [NoResponse EXCEPT
        !.status = IF e.statusCode /= 0 THEN e.statusCode ELSE 500,
        !.kind = "error",
        !.message = IF e.message /= "" THEN e.message ELSE "Internal Server Error",
        !.id = e.id,
        !.hasDetails = (e.name = "ValidationError"),
        !.details = e.details]

\* the handler answering every error that is not of the three classes with 500
\* and the fixed text
ErrorResponse_Generic(e) ==
    LET typed == e.name \in {"NotFoundError", "ValidationError", "AuthenticationError"}
    IN  [NoResponse EXCEPT
            !.status = IF typed THEN e.statusCode ELSE 500,
            !.kind = "error",
            !.message = IF typed THEN e.message ELSE "Internal Server Error",
            !.id = e.id,
            !.hasDetails = (e.name = "ValidationError" /\ Len(e.details) > 0),
            !.details = IF e.name = "ValidationError" /\ Len(e.details) > 0
                        THEN e.details ELSE <<>>]

\* the status and body the global error handler sends for e
ErrorResponse(e) ==
    [NoResponse EXCEPT
        !.status = IF e.statusCode /= 0 THEN e.statusCode ELSE 500,
        !.kind = "error",
        !.message = IF e.message /= "" THEN e.message ELSE "Internal Server Error",
        !.id = e.id,
        !.hasDetails = (e.name = "ValidationError" /\ Len(e.details) > 0),
        !.details = IF e.name = "ValidationError" /\ Len(e.details) > 0
                    THEN e.details ELSE <<>>]

errorHandler ==
    /\ pc = "error"
    /\ res' = ErrorResponse(err)
    /\ ran' = Append(ran, "errorHandler")
    /\ pc' = "done"
    /\ UNCHANGED <<products, uuids, req, stage, err, pre, clients, running, order>>

(* ----------------------------------------------------------------------- *)
(* Requests                                                                *)
(* ----------------------------------------------------------------------- *)

\* x-api-key headers: missing, empty, differing from the secret in one letter's
\* case, and the secret itself
Keys ==
    {Undef, Str(<<>>), API_KEY,
     Str(<<"D", "e", "f", "a", "u", "l", "t", "-", "s", "e", "c", "r", "e", "t",
           "-", "k", "e", "y", "-", "f", "a", "l", "l", "b", "a", "c", "k">>)}

\* {name: "Mug", price: 5, category: "Kitchen"}
MinimalBody ==
    [EmptyObject EXCEPT
        !.name = Str(<<"M", "u", "g">>),
        !.price = Num(5),
        !.category = Str(<<"K", "i", "t", "c", "h", "e", "n">>)]

\* MinimalBody with a description and inStock: false
FullBody ==
    [MinimalBody EXCEPT
        !.description = Str(<<"B", "i", "g", " ", "m", "u", "g">>),
        !.inStock = Bool(FALSE)]

\* {name: "ab", price: -1, category: ""}
InvalidBody ==
    [EmptyObject EXCEPT
        !.name = Str(<<"a", "b">>),
        !.price = Num(-1),
        !.category = Str(<<>>)]

\* {name: "Mug", category: "Kitchen"}: a partial record, price omitted
NoPriceBody == [MinimalBody EXCEPT !.price = Undef]

\* request bodies: valid ones with and without an `id` property, invalid ones
Bodies ==
    {MinimalBody, FullBody, NoPriceBody,
     [MinimalBody EXCEPT !.id = Str(<<"1">>)],
     [FullBody EXCEPT !.id = Str(<<"1">>)],
     InvalidBody, EmptyObject}

\* the :id route parameter: seed ids, generated ids, an id never stored
TargetIds == {<<"1">>, <<"2">>, <<"9", "9">>} \cup {Uuid(k) : k \in 1..MaxCreates}

\* values a client may send for each validated property: absent, of the wrong
\* type, of the right type but rejected, accepted
NameValues == {Undef, Num(7), Str(<<"a", "b">>), Str(<<"M", "u", "g">>)}

PriceValues == {Undef, Str(<<"5">>), Num(-1), Num(5)}

CategoryValues ==
    {Undef, Num(7), Str(<<>>), Str(<<"K", "i", "t", "c", "h", "e", "n">>),
     Str(<<"c", "o", "n", "s", "t", "r", "u", "c", "t", "o", "r">>)}

InStockValues == {Undef, Null, Str(<<"y", "e", "s">>), Bool(FALSE)}

\* every combination of the values above, sent to the create route with the right key
ValidationBodies ==
    {[EmptyObject EXCEPT !.name = n, !.price = pr, !.category = c, !.inStock = s] :
        n \in NameValues, pr \in PriceValues, c \in CategoryValues, s \in InStockValues}

CreateRequests ==
    {[NoRequest EXCEPT !.route = "create", !.key = k, !.body = b] :
        k \in Keys, b \in Bodies}
    \cup {[NoRequest EXCEPT !.route = "create", !.key = API_KEY, !.body = b] :
             b \in ValidationBodies}

UpdateRequests ==
    {[NoRequest EXCEPT !.route = "update", !.id = i, !.key = k, !.body = b] :
        i \in TargetIds, k \in Keys, b \in Bodies}

DeleteRequests == {[NoRequest EXCEPT !.route = "delete", !.id = i] : i \in TargetIds}

GetRequests == {[NoRequest EXCEPT !.route = "get", !.id = i] : i \in TargetIds}

\* ?category= values: absent, a seed category, one differing in case, an unused one
Categories ==
    {Undef,
     Str(<<"e", "l", "e", "c", "t", "r", "o", "n", "i", "c", "s">>),
     Str(<<"K", "I", "T", "C", "H", "E", "N">>),
     Str(<<"t", "o", "y", "s">>)}

\* ?page= and ?limit= values: absent or decimal strings; limits are positive
Pages == {Undef, Str(<<"-", "1">>), Str(<<"1">>), Str(<<"2">>), Str(<<"3">>)}

Limits == {Undef, Str(<<"1">>), Str(<<"2">>)}

ListRequests ==
    {[NoRequest EXCEPT !.route = "list", !.category = c, !.page = pg, !.limit = l] :
        c \in Categories, pg \in Pages, l \in Limits}

\* ?q= values: absent, empty, matching in either case, matching nothing
Queries ==
    {Undef, Str(<<>>), Str(<<"l", "a", "p">>), Str(<<"M", "U", "G">>),
     Str(<<"z", "z", "z">>)}

SearchRequests == {[NoRequest EXCEPT !.route = "search", !.q = q] : q \in Queries}

\* POST and PUT requests whose body is not JSON, without and with the key
MalformedRequests ==
    {[NoRequest EXCEPT !.route = r, !.id = IF r = "update" THEN <<"1">> ELSE <<>>,
                       !.key = k, !.malformed = TRUE] :
        r \in {"create", "update"}, k \in {Undef, API_KEY}}

StatsRequests == {[NoRequest EXCEPT !.route = "stats"]}

RootRequests == {[NoRequest EXCEPT !.route = "root", !.url = <<"/">>]}

\* a request no route matches, GET /nope
UnmatchedRequests ==
    {[NoRequest EXCEPT !.route = "unmatched", !.url = <<"/", "n", "o", "p", "e">>]}

Requests ==
    CreateRequests \cup UpdateRequests \cup DeleteRequests \cup GetRequests
        \cup ListRequests \cup SearchRequests \cup MalformedRequests
        \cup StatsRequests \cup RootRequests \cup UnmatchedRequests

\* the response has been written out: the server waits for the next request
EndRequest ==
    /\ pc = "done"
    /\ pc' = "idle"
    /\ req' = NoRequest
    /\ stage' = 1
    /\ ran' = <<>>
    /\ err' = NoError
    /\ res' = NoResponse
    /\ pre' = products
    /\ UNCHANGED <<products, uuids, clients, running, order>>

\* a request arrives and enters the stack registered for its route
Receive ==
    /\ pc = "idle"
    /\ \E r \in Requests :
        /\ r.route = "create" => uuids < MaxCreates
        /\ req' = r
    /\ pc' = "global"
    /\ stage' = 1
    /\ ran' = <<>>
    /\ err' = NoError
    /\ res' = NoResponse
    /\ pre' = products
    /\ UNCHANGED <<products, uuids, clients, running, order>>

Next ==
    \/ Receive
    \/ loggerMiddleware
    \/ bodyParser
    \/ authenticateMiddleware
    \/ validateProduct
    \/ listProducts
    \/ searchProducts
    \/ getProduct
    \/ createProduct
    \/ updateProduct
    \/ deleteProduct
    \/ productStats
    \/ welcome
    \/ routeNotFound
    \/ errorHandler
    \/ EndRequest

Spec == Init /\ [][Next]_vars

\* a stage of the request in flight runs: Express calls each stage from the
\* previous one's next(), so a stage that can run does run
RunStage ==
    \/ loggerMiddleware
    \/ bodyParser
    \/ authenticateMiddleware
    \/ validateProduct
    \/ listProducts
    \/ searchProducts
    \/ getProduct
    \/ createProduct
    \/ updateProduct
    \/ deleteProduct
    \/ productStats
    \/ welcome
    \/ routeNotFound
    \/ errorHandler

\* one request or more per route and per outcome: the requests whose answer
\* is awaited
LiveRequests ==
    {r \in Requests :
        /\ r.key \in {Undef, API_KEY}
        /\ r.body \in {EmptyObject, MinimalBody, InvalidBody}
        /\ r.id \in {<<>>, <<"1">>, <<"9", "9">>}
        /\ r.category = Undef
        /\ r.page = Undef
        /\ r.limit = Undef}

\* a request of LiveRequests arrives
ReceiveLive ==
    /\ pc = "idle"
    /\ \E r \in LiveRequests :
        /\ r.route = "create" => uuids < MaxCreates
        /\ req' = r
    /\ pc' = "global"
    /\ stage' = 1
    /\ ran' = <<>>
    /\ err' = NoError
    /\ res' = NoResponse
    /\ pre' = products
    /\ UNCHANGED <<products, uuids, clients, running, order>>

NextLive ==
    \/ ReceiveLive
    \/ RunStage
    \/ EndRequest

SpecLive == Init /\ [][NextLive]_vars /\ WF_vars(RunStage)

(* ----------------------------------------------------------------------- *)
(* Concurrent requests                                                     *)
(* ----------------------------------------------------------------------- *)

\* a runtime that preempts callbacks: any connection may step at any time
MayRun_Unlocked(c) == TRUE

\* the event loop runs a callback to its end before it starts another one,
\* and every stage and handler above calls next() or answers synchronously:
\* connection c may take a step only when no other connection is inside its
\* stack
MayRun(c) == running \in {"none", c}

\* the write requests sent on the open connections
ConcurrentRequests ==
    {r \in CreateRequests \cup UpdateRequests \cup DeleteRequests :
        /\ r.key \in {Undef, API_KEY}
        /\ r.id \in {<<>>, <<"1">>, <<"2">>}
        /\ r.body \in {MinimalBody, FullBody, NoPriceBody, EmptyObject,
                        [MinimalBody EXCEPT !.id = Str(<<"1">>)]}}

\* every connection has sent one write request; none has been looked at
InitConcurrent ==
    /\ products = SeedProducts
    /\ uuids = 0
    /\ pc = "idle"
    /\ req = NoRequest
    /\ stage = 1
    /\ ran = <<>>
    /\ err = NoError
    /\ res = NoResponse
    /\ pre = SeedProducts
    /\ clients \in [Slots -> {[NoClient EXCEPT !.request = r, !.phase = "arrived"] :
                                 r \in ConcurrentRequests}]
    /\ running = "none"
    /\ order = <<>>

\* connection c is inside its stack, about to run the stage `name`
ClientAt(c, name, step) ==
    /\ MayRun(c)
    /\ clients[c].phase = "chain"
    /\ clients[c].stage <= Len(Stack(clients[c].request.route))
    /\ Stack(clients[c].request.route)[clients[c].stage] = name
    /\ clients[c].step = step

\* the stage of c goes on inside the same callback
Continue(c, cl) ==
    /\ clients' = [clients EXCEPT ![c] = cl]
    /\ running' = c
    /\ UNCHANGED <<order, pc, req, stage, ran, err, res, pre>>

\* the response of c is sent and its callback returns to the event loop
Answer(c, cl, status) ==
    /\ clients' = [clients EXCEPT ![c] = [cl EXCEPT !.phase = "done", !.status = status]]
    /\ running' = "none"
    /\ order' = Append(order, c)
    /\ UNCHANGED <<pc, req, stage, ran, err, res, pre>>

\* loggerMiddleware runs for c; bodyParser.json() then waits for the body,
\* which arrives in a later turn of the event loop
loggerClient(c) ==
    /\ MayRun(c)
    /\ clients[c].phase = "arrived"
    /\ clients' = [clients EXCEPT ![c].phase = "parsing"]
    /\ UNCHANGED <<products, uuids, running, order, pc, req, stage, ran, err, res, pre>>

\* the body of c has been read and parsed: its route's stack starts
bodyParsed(c) ==
    /\ MayRun(c)
    /\ clients[c].phase = "parsing"
    /\ Continue(c, [clients[c] EXCEPT !.phase = "chain", !.stage = 1])
    /\ UNCHANGED <<products, uuids>>

authenticateClient(c) ==
    /\ ClientAt(c, "authenticateMiddleware", 1)
    /\ IF AuthRejects(clients[c].request.key)
       THEN Continue(c, [clients[c] EXCEPT !.phase = "error", !.statusCode = 401])
       ELSE Continue(c, [clients[c] EXCEPT !.stage = @ + 1])
    /\ UNCHANGED <<products, uuids>>

validateClient(c) ==
    /\ ClientAt(c, "validateProduct", 1)
    /\ IF Len(ValidationErrors(clients[c].request.body)) > 0
       THEN Continue(c, [clients[c] EXCEPT !.phase = "error", !.statusCode = 400])
       ELSE Continue(c, [clients[c] EXCEPT !.stage = @ + 1])
    /\ UNCHANGED <<products, uuids>>

\* const newProduct = { id: uuidv4(), ... }
createProductBuild(c) ==
    /\ ClientAt(c, "createProduct", 1)
    /\ uuids' = uuids + 1
    /\ Continue(c, [clients[c] EXCEPT
                       !.newProduct = NewProduct(Uuid(uuids + 1), clients[c].request.body),
                       !.step = 2])
    /\ UNCHANGED products

\* products.push(newProduct); res.status(201).json(newProduct)
createProductPush(c) ==
    /\ ClientAt(c, "createProduct", 2)
    /\ products' = Append(products, clients[c].newProduct)
    /\ Answer(c, clients[c], 201)
    /\ UNCHANGED uuids

\* const productIndex = products.findIndex(p => p.id === id)
updateProductFind(c) ==
    /\ ClientAt(c, "updateProduct", 1)
    /\ Continue(c, [clients[c] EXCEPT
                       !.productIndex = FindIndex(products, clients[c].request.id),
                       !.step = 2])
    /\ UNCHANGED <<products, uuids>>

\* products[productIndex] = { ...products[productIndex], ...req.body, id: id }:
\* a position past the end reads undefined and, when it is the next one,
\* extends the array
WriteAt(list, i, body, id) ==
    IF i <= Len(list)
    THEN [list EXCEPT ![i] = UpdatedProduct(list[i], body, id)]
    ELSE Append(list, UpdatedProduct(EmptyObject, body, id))

\* if (productIndex === -1) next(new NotFoundError(...)) else the write
updateProductWrite(c) ==
    /\ ClientAt(c, "updateProduct", 2)
    /\ UNCHANGED uuids
    /\ IF clients[c].productIndex = 0
       THEN /\ Continue(c, [clients[c] EXCEPT !.phase = "error", !.statusCode = 404])
            /\ UNCHANGED products
       ELSE /\ products' = WriteAt(products, clients[c].productIndex,
                                   clients[c].request.body, clients[c].request.id)
            /\ Answer(c, clients[c], 200)

\* const initialLength = products.length; products = products.filter(...)
deleteProductFilter(c) ==
    /\ ClientAt(c, "deleteProduct", 1)
    /\ products' = WithoutId(products, clients[c].request.id)
    /\ Continue(c, [clients[c] EXCEPT !.initialLength = Len(products), !.step = 2])
    /\ UNCHANGED uuids

\* if (products.length === initialLength) next(new NotFoundError(...)) else 204
deleteProductCheck(c) ==
    /\ ClientAt(c, "deleteProduct", 2)
    /\ UNCHANGED <<products, uuids>>
    /\ IF Len(products) = clients[c].initialLength
       THEN Continue(c, [clients[c] EXCEPT !.phase = "error", !.statusCode = 404])
       ELSE Answer(c, clients[c], 204)

\* the global error handler answers c with the status of the error passed on
errorHandlerClient(c) ==
    /\ MayRun(c)
    /\ clients[c].phase = "error"
    /\ Answer(c, clients[c], clients[c].statusCode)
    /\ UNCHANGED <<products, uuids>>

NextConcurrent ==
    \/ \E c \in Slots : loggerClient(c)
    \/ \E c \in Slots : bodyParsed(c)
    \/ \E c \in Slots : authenticateClient(c)
    \/ \E c \in Slots : validateClient(c)
    \/ \E c \in Slots : createProductBuild(c)
    \/ \E c \in Slots : createProductPush(c)
    \/ \E c \in Slots : updateProductFind(c)
    \/ \E c \in Slots : updateProductWrite(c)
    \/ \E c \in Slots : deleteProductFilter(c)
    \/ \E c \in Slots : deleteProductCheck(c)
    \/ \E c \in Slots : errorHandlerClient(c)

SpecConcurrent == InitConcurrent /\ [][NextConcurrent]_vars

(* ----------------------------------------------------------------------- *)
(* Properties                                                              *)
(* ----------------------------------------------------------------------- *)

WriteRoutes == {"create", "update"}

\* the request has been answered
Answered == pc = "done"

\* C1: no two products in the collection have the same id, whatever creates,
\* updates and deletes led to the collection.
C1_UniqueIds ==
    \A i, j \in 1..Len(products) :
        i /= j => products[i].id /= products[j].id

\* C2: the record stored and returned by a successful create carries the id
\* the system generated, never one taken from the request body.
C2_CreateIdIsGenerated ==
    (Answered /\ req.route = "create" /\ res.status = 201) =>
        /\ res.product.id = Str(Uuid(uuids))
        /\ products[Len(products)].id = Str(Uuid(uuids))

\* the x-api-key header is missing, empty, or not the configured secret
BadKey(key) == key = Undef \/ key = Str(<<>>) \/ key /= API_KEY

IsPrefix(s, t) == Len(s) <= Len(t) /\ s = SubSeq(t, 1, Len(s))

\* the stages of ran that belong to the route's stack (all but the error handler)
StagesRun == IF Answered /\ res.kind = "error" THEN SubSeq(ran, 1, Len(ran) - 1) ELSE ran

\* C4: on create and update the stages run in the order authenticate,
\* validate, handler; validation runs only after authentication passed, the
\* handler only after both passed, and a stage that fails is followed by the
\* error handler alone (so unauthenticated and invalid is answered 401).
C4_StageOrder ==
    req.route \in WriteRoutes =>
        LET handler == IF req.route = "create" THEN "createProduct" ELSE "updateProduct"
            rules == <<"authenticateMiddleware", "validateProduct", handler>>
            invalid == ValidationErrors(req.body) /= <<>>
        IN  /\ IsPrefix(StagesRun, rules)
            /\ Len(StagesRun) >= 2 => ~BadKey(req.key)
            /\ Len(StagesRun) >= 3 => ~invalid
            /\ (BadKey(req.key) /\ Len(StagesRun) >= 1) =>
                  /\ StagesRun = <<"authenticateMiddleware">>
                  /\ err.name = "AuthenticationError"
                  /\ pc \in {"error", "done"}
                  /\ Answered => (res.status = 401 /\ Len(ran) = 2)
            /\ (~BadKey(req.key) /\ invalid /\ Len(ran) >= 2) =>
                  /\ StagesRun = <<"authenticateMiddleware", "validateProduct">>
                  /\ err.name = "ValidationError"
                  /\ pc \in {"error", "done"}
                  /\ Answered => (res.status = 400 /\ Len(ran) = 3)
            /\ pc = "error" => \A i \in 1..Len(ran) : ran[i] /= "errorHandler"
            /\ (Answered /\ res.kind = "error") => ran[Len(ran)] = "errorHandler"

\* a create that is both unauthenticated and invalid was answered 401 by the
\* error handler right after authentication
C4_Witness ==
    /\ Answered
    /\ req.route = "create"
    /\ req.key = Undef
    /\ req.body = InvalidBody
    /\ ran = <<"authenticateMiddleware", "errorHandler">>
    /\ res.status = 401

\* C5: after a successful create returning R, GET /api/products/<R.id> finds a
\* record equal to R, and R is the body plus the generated id and the
\* default inStock = true.
C5_RoundTrip ==
    (Answered /\ req.route = "create" /\ res.status = 201) =>
        LET R == res.product
            expected ==
                [req.body EXCEPT
                    !.id = Str(Uuid(uuids)),
                    !.inStock = IF req.body.inStock = Undef THEN Bool(TRUE)
                                ELSE req.body.inStock]
        IN  /\ R = expected
            /\ R.id.t = "string"
            /\ FindIndex(products, R.id.s) /= 0
            /\ products[FindIndex(products, R.id.s)] = R

\* the set of ids held by a list of products
IdsOf(list) == {list[i].id : i \in 1..Len(list)}

\* C6: a successful update of id X leaves the updated product's id equal to X
\* even when the body carries another id, and leaves the set of ids unchanged.
C6_UpdatePreservesId ==
    (Answered /\ req.route = "update" /\ res.status = 200) =>
        /\ res.product.id = Str(req.id)
        /\ \E i \in 1..Len(pre) :
              /\ pre[i].id = Str(req.id)
              /\ products[i] = res.product
        /\ IdsOf(products) = IdsOf(pre)
        /\ Len(products) = Len(pre)

\* an update of id "2" whose body says id "1" succeeded
C6_Witness ==
    /\ Answered
    /\ req.route = "update"
    /\ res.status = 200
    /\ req.id = <<"2">>
    /\ req.body.id = Str(<<"1">>)

\* p's name or description contains q, compared without regard to case; a
\* product without a description can only match by its name
SpecSearchMatch(p, q) ==
    \/ Includes(ToLowerCase(p.name.s), ToLowerCase(q))
    \/ /\ p.description.t = "string"
       /\ Includes(ToLowerCase(p.description.s), ToLowerCase(q))

\* C7: a search with a non-empty q is answered 200 with exactly the products
\* whose name or description contains q case-insensitively; a search with q
\* missing or empty is answered 400.
C7_Search ==
    (Answered /\ req.route = "search") =>
        IF req.q = Undef \/ req.q = Str(<<>>)
        THEN res.status = 400
        ELSE /\ res.status = 200
             /\ LET Test(p) == SpecSearchMatch(p, req.q.s)
                IN  res.products = SelectSeq(pre, Test)

\* the four rules as the specification states them
NameRuleViolated(b) == ~(b.name.t = "string" /\ Len(b.name.s) >= 3)

PriceRuleViolated(b) == ~(b.price.t = "number" /\ b.price.n > 0)

CategoryRuleViolated(b) == ~(b.category.t = "string" /\ Len(b.category.s) >= 1)

InStockRuleViolated(b) == b.inStock.t /= "undefined" /\ b.inStock.t /= "boolean"

ViolatedRules(b) ==
    (IF NameRuleViolated(b) THEN {"Name"} ELSE {})
        \cup (IF PriceRuleViolated(b) THEN {"Price"} ELSE {})
        \cup (IF CategoryRuleViolated(b) THEN {"Category"} ELSE {})
        \cup (IF InStockRuleViolated(b) THEN {"inStock"} ELSE {})

\* the rule a defect string is about: the text before its colon
RuleOf(defect) ==
    CASE defect = "Name: required, string, min 3 characters." -> "Name"
      [] defect = "Price: required, positive number." -> "Price"
      [] defect = "Category: required, string." -> "Category"
      [] defect = "inStock: must be a boolean (true/false) if provided." -> "inStock"

\* C8: an authenticated create or update with a JSON body is answered 400 iff at least one of
\* the four rules is violated; details then holds exactly one entry per
\* violated rule and the collection is unchanged.
C8_ValidationDetails ==
    (Answered /\ req.route \in WriteRoutes /\ req.key = API_KEY /\ ~req.malformed) =>
        LET violated == ViolatedRules(req.body)
        IN  /\ res.status = 400 <=> violated /= {}
            /\ violated /= {} =>
                  /\ res.hasDetails
                  /\ Len(res.details) = Cardinality(violated)
                  /\ {RuleOf(res.details[i]) : i \in 1..Len(res.details)} = violated
                  /\ products = pre

\* the create of {name: "ab", price: -1, category: ""} was answered 400 with
\* three entries in details
C8_Witness ==
    /\ Answered
    /\ req.route = "create"
    /\ req.key = API_KEY
    /\ req.body = InvalidBody
    /\ res.status = 400
    /\ Len(res.details) = 3

RECURSIVE DecimalString(_)
\* the decimal digits of a natural number, as sent in a query string
DecimalString(n) ==
    IF n < 10 THEN <<Digits[n + 1]>>
    ELSE DecimalString(n \div 10) \o <<Digits[(n % 10) + 1]>>

\* the products of list in category c compared without regard to case, all of
\* list when no category is asked for
InCategory(list, c) ==
    IF c = Undef THEN list
    ELSE LET Test(p) == ToLowerCase(p.category.s) = ToLowerCase(c.s)
         IN  SelectSeq(list, Test)

RECURSIVE PagesFrom(_, _, _, _, _)
\* the products arrays of pages pg..last of the listing of list, one after another
PagesFrom(list, category, limit, pg, last) ==
    IF pg > last THEN <<>>
    ELSE ListResults(list, category, Str(DecimalString(pg)), limit).products
            \o PagesFrom(list, category, limit, pg + 1, last)

\* C9: for a limit L > 0 and any category filter, totalPages is
\* ceil(filteredCount / L) and the pages 1..totalPages, one after another, are
\* exactly the filtered list: their lengths sum to totalItems and no position
\* of the filtered list is on two pages.
C9_PagesPartition ==
    (Answered /\ req.route = "list" /\ LimitNum(req.limit).k = "finite"
        /\ LimitNum(req.limit).n > 0) =>
        LET L == LimitNum(req.limit).n
            F == InCategory(pre, req.category)
            last == CHOOSE n \in 0..Len(F) :
                        /\ n * L >= Len(F)
                        /\ \A m \in 0..(n - 1) : m * L < Len(F)
        IN  /\ res.totalItems = Len(F)
            /\ res.totalPages = Finite(last)
            /\ PagesFrom(pre, req.category, req.limit, 1, last) = F

\* page 2 of the KITCHEN listing with limit 1 holds the created product, the
\* second of two kitchen products
C9_Witness ==
    /\ Answered
    /\ req.route = "list"
    /\ req.category = Str(<<"K", "I", "T", "C", "H", "E", "N">>)
    /\ req.limit = Str(<<"1">>)
    /\ req.page = Str(<<"2">>)
    /\ res.totalItems = 2
    /\ res.totalPages = Finite(2)
    /\ Len(res.products) = 1
    /\ res.products[1].name = Str(<<"M", "u", "g">>)

\* the records of F at the 0-based positions lo <= i < hi, in order
Window(F, lo, hi) ==
    LET first == Max(lo, 0)
        count == Max(Min(hi, Len(F)) - first, 0)
    IN  [j \in 1..count |-> F[first + j]]

\* C10: the list operation answers 200 with the records at positions
\* [(page-1)*limit, page*limit) of the category-filtered list, totalItems the
\* filtered count and currentPage the requested page; a page beyond the last
\* gets an empty array; on the seed collection category=electronics, limit=1,
\* page=2 gives totalItems 2, totalPages 2, currentPage 2 and product "2".
C10_ListWindow ==
    (Answered /\ req.route = "list") =>
        LET page == PageNum(req.page).n
            limit == LimitNum(req.limit).n
            F == InCategory(pre, req.category)
        IN  /\ res.status = 200
            /\ res.totalItems = Len(F)
            /\ res.currentPage = Finite(page)
            /\ res.products = Window(F, (page - 1) * limit, page * limit)
            /\ (page - 1) * limit >= Len(F) => res.products = <<>>
            /\ (/\ pre = SeedProducts
                /\ req.category = Str(<<"e", "l", "e", "c", "t", "r", "o", "n", "i", "c", "s">>)
                /\ req.limit = Str(<<"1">>)
                /\ req.page = Str(<<"2">>)) =>
                  /\ res.totalItems = 2
                  /\ res.totalPages = Finite(2)
                  /\ res.currentPage = Finite(2)
                  /\ res.products = <<SeedProducts[2]>>

\* C11: once a DELETE of id X was answered 204, no product has id X until a
\* create runs, and a GET or DELETE of an id no product has is answered 404:
\* the second DELETE of X, and a GET of X in between, get 404.
C11_DeleteNotIdempotent ==
    [][\A X \in TargetIds :
          /\ (req'.route = "delete" /\ req'.id = X /\ pc = "chain" /\ pc' = "done"
                 /\ res'.status = 204)
                => Str(X) \notin IdsOf(products')
          /\ (Str(X) \notin IdsOf(products) /\ uuids' = uuids)
                => Str(X) \notin IdsOf(products')
          /\ (req'.route \in {"get", "delete"} /\ req'.id = X /\ pc /= "done"
                 /\ pc' = "done" /\ Str(X) \notin IdsOf(pre'))
                => res'.status = 404
      ]_vars

\* the seed product "1" was deleted, no create has run since the start, and a
\* further DELETE of "1" was answered 404
C11_Witness ==
    /\ Answered
    /\ req.route = "delete"
    /\ req.id = <<"1">>
    /\ uuids = 0
    /\ res.status = 404

TypedFailures == {"NotFoundError", "ValidationError", "AuthenticationError"}

\* the status each typed failure declares
DeclaredStatus(name) ==
    CASE name = "NotFoundError" -> 404
      [] name = "ValidationError" -> 400
      [] name = "AuthenticationError" -> 401

\* C12: a typed failure is answered with its declared status and its message;
\* the body carries details iff the failure is a ValidationError with a
\* non-empty defect list, so the 400 for a missing search q carries none.
C12_TypedFailures ==
    (Answered /\ res.kind = "error" /\ err.name \in TypedFailures) =>
        /\ res.status = DeclaredStatus(err.name)
        /\ res.message = err.message
        /\ res.message /= ""
        /\ res.id = err.id
        /\ res.hasDetails <=> (err.name = "ValidationError" /\ err.details /= <<>>)
        /\ res.hasDetails => res.details = err.details
        /\ req.route = "search" => (res.status = 400 /\ ~res.hasDetails)

\* a search without q was answered 400 without details
C12_Witness ==
    /\ Answered
    /\ req.route = "search"
    /\ req.q = Undef
    /\ res.status = 400
    /\ res.kind = "error"
    /\ ~res.hasDetails

UpdatedAt == FindIndex(pre, req.id)

\* C14: after a successful update every field present in the body has the
\* body's value, every field absent from it has its prior value, and every
\* other product and the order of the collection are unchanged.
C14_ShallowMerge ==
    (Answered /\ req.route = "update" /\ res.status = 200) =>
        /\ Len(products) = Len(pre)
        /\ \A f \in Fields :
              products[UpdatedAt][f] =
                 IF req.body[f] /= Undef THEN req.body[f] ELSE pre[UpdatedAt][f]
        /\ \A i \in 1..Len(pre) : i /= UpdatedAt => products[i] = pre[i]

\* C14 as amended: every field other than id present in the body has the
\* body's value, id keeps the value of the route parameter, every field absent
\* from the body has its prior value, and every other product and the order
\* of the collection are unchanged.
C14_ShallowMergeAmended ==
    (Answered /\ req.route = "update" /\ res.status = 200) =>
        /\ Len(products) = Len(pre)
        /\ products[UpdatedAt].id = Str(req.id)
        /\ \A f \in Fields \ {"id"} :
              products[UpdatedAt][f] =
                 IF req.body[f] /= Undef THEN req.body[f] ELSE pre[UpdatedAt][f]
        /\ \A i \in 1..Len(pre) : i /= UpdatedAt => products[i] = pre[i]
        /\ res.product = products[UpdatedAt]

\* the seed product "2" was updated with a body that has neither description
\* nor inStock, and kept both
C14_Witness ==
    /\ Answered
    /\ req.route = "update"
    /\ res.status = 200
    /\ req.id = <<"2">>
    /\ req.body = MinimalBody
    /\ pre[UpdatedAt] = SeedProducts[2]
    /\ res.product.description = SeedProducts[2].description
    /\ res.product.inStock = Bool(TRUE)
    /\ res.product.name = Str(<<"M", "u", "g">>)

\* the categories stored in list, as stored
StoredCategories(list) == {list[i].category.s : i \in 1..Len(list)}

\* the number of products of list with category c, compared exactly
CountIn(list, c) == Cardinality({i \in 1..Len(list) : list[i].category.s = c})

RECURSIVE SumOver(_, _)
\* the sum of the numeric counts of the mapping m over the keys in S
SumOver(m, S) ==
    IF S = {} THEN 0
    ELSE LET c == CHOOSE c \in S : TRUE
         IN  m[c].n + SumOver(m, S \ {c})

\* C15: statistics report totalProducts as the collection size, inStockCount
\* as the number of products whose inStock is true, and countByCategory as the
\* mapping from each stored category string to its number of products; the
\* counts sum to totalProducts and inStockCount <= totalProducts.
C15_Stats ==
    (Answered /\ req.route = "stats") =>
        /\ res.status = 200
        /\ res.totalProducts = Len(pre)
        /\ res.inStockCount =
              Cardinality({i \in 1..Len(pre) : pre[i].inStock = Bool(TRUE)})
        /\ res.inStockCount <= res.totalProducts
        /\ DOMAIN res.countByCategory = StoredCategories(pre)
        /\ \A c \in StoredCategories(pre) :
              res.countByCategory[c] = Num(CountIn(pre, c))
        /\ SumOver(res.countByCategory, DOMAIN res.countByCategory)
              = res.totalProducts

RECURSIVE Remaining(_, _)
\* list without its entries whose id is the string id, in the order of list
Remaining(list, id) ==
    IF list = <<>> THEN <<>>
    ELSE IF Head(list).id = Str(id) THEN Remaining(Tail(list), id)
         ELSE <<Head(list)>> \o Remaining(Tail(list), id)

\* C18: a DELETE of an id no product has is answered 404 with the message
\* "Product with id <id> not found for deletion." and leaves the collection as
\* it was; a DELETE of an id some product has removes exactly the products
\* with that id and keeps the others in their order.
C18_DeleteFrame ==
    (Answered /\ req.route = "delete") =>
        IF Str(req.id) \notin IdsOf(pre)
        THEN /\ res.status = 404
             /\ res.kind = "error"
             /\ res.message = "Product with id ${id} not found for deletion."
             /\ res.id = req.id
             /\ products = pre
        ELSE /\ res.status = 204
             /\ products = Remaining(pre, req.id)
             /\ Len(products) < Len(pre)

\* DELETE /api/products/99 was answered 404 on a collection that still has
\* its two seed products
C18_Witness ==
    /\ Answered
    /\ req.route = "delete"
    /\ req.id = <<"9", "9">>
    /\ res.status = 404
    /\ Len(products) >= 2

\* p satisfies the four validation rules, inStock being present
ValidProduct(p) ==
    /\ TypeOf(p.name) = "string" /\ Len(p.name.s) >= 3
    /\ TypeOf(p.price) = "number" /\ p.price.n > 0
    /\ TypeOf(p.category) = "string" /\ Len(p.category.s) >= 1
    /\ TypeOf(p.inStock) = "boolean"

\* C19: every product in the collection has a name that is a string of length
\* >= 3, a price that is a number > 0, a category that is a non-empty string,
\* and a boolean inStock.
C19_StoredProductsValid ==
    \A i \in 1..Len(products) : ValidProduct(products[i])

\* a product created from a body without inStock is stored with inStock true
C19_Witness ==
    /\ Answered
    /\ req.route = "create"
    /\ res.status = 201
    /\ req.body.inStock = Undef
    /\ products[Len(products)].inStock = Bool(TRUE)
    /\ ValidProduct(products[Len(products)])

\* the body lacks one of the three required properties
OmitsRequired(b) == b.name = Undef \/ b.price = Undef \/ b.category = Undef

\* C20: for a PUT with a JSON body, a bad key gives 401 whatever else is
\* wrong, a good key with an invalid record gives 400 whether or not the id
\* exists, 404 is given only when the key and the record passed and the id
\* does not exist, a body omitting a required property sent to an existing id
\* gives 400, and none of the three outcomes changes the collection.
C20_UpdatePrecedence ==
    (Answered /\ req.route = "update" /\ ~req.malformed) =>
        /\ BadKey(req.key) => res.status = 401
        /\ (~BadKey(req.key) /\ ViolatedRules(req.body) /= {}) => res.status = 400
        /\ res.status = 404 <=>
              (/\ ~BadKey(req.key)
               /\ ViolatedRules(req.body) = {}
               /\ Str(req.id) \notin IdsOf(pre))
        /\ (~BadKey(req.key) /\ OmitsRequired(req.body)
               /\ Str(req.id) \in IdsOf(pre)) => res.status = 400
        /\ res.status \in {401, 400, 404} => products = pre
        /\ res.status \in {200, 401, 400, 404}

\* a PUT with the secret and a record without price, sent to an id no product
\* has, was answered 400 and not 404
C20_Witness ==
    /\ Answered
    /\ req.route = "update"
    /\ req.key = API_KEY
    /\ req.id = <<"9", "9">>
    /\ req.body = NoPriceBody
    /\ res.status = 400
    /\ products = pre

\* the collection, the status and the number of uuids drawn after request r
\* ran alone, from arrival to answer, on the collection list
RunAlone(list, r, drawn) ==
    IF r.route \in WriteRoutes /\ AuthRejects(r.key)
    THEN [list |-> list, status |-> 401, drawn |-> drawn]
    ELSE IF r.route \in WriteRoutes /\ Len(ValidationErrors(r.body)) > 0
    THEN [list |-> list, status |-> 400, drawn |-> drawn]
    ELSE IF r.route = "create"
    THEN [list |-> Append(list, NewProduct(Uuid(drawn + 1), r.body)),
          status |-> 201, drawn |-> drawn + 1]
    ELSE IF FindIndex(list, r.id) = 0
    THEN [list |-> list, status |-> 404, drawn |-> drawn]
    ELSE IF r.route = "update"
    THEN [list |-> [list EXCEPT ![FindIndex(list, r.id)] =
                       UpdatedProduct(list[FindIndex(list, r.id)], r.body, r.id)],
          status |-> 200, drawn |-> drawn]
    ELSE [list |-> WithoutId(list, r.id), status |-> 204, drawn |-> drawn]

RECURSIVE RunInOrder(_)
\* the outcome of running the first k requests of `order` one after the
\* other on the seed collection
RunInOrder(k) ==
    IF k = 0
    THEN [list |-> SeedProducts, statuses |-> <<>>, drawn |-> 0]
    ELSE LET before == RunInOrder(k - 1)
             one == RunAlone(before.list, clients[order[k]].request, before.drawn)
         IN  [list |-> one.list,
              statuses |-> Append(before.statuses, one.status),
              drawn |-> one.drawn]

\* every open connection has its answer
AllAnswered == \A c \in Slots : clients[c].phase = "done"

InFlight == pc \notin {"idle", "done"}

\* the stages that send a response
Responders ==
    {"listProducts", "searchProducts", "getProduct", "createProduct",
     "updateProduct", "deleteProduct", "productStats", "welcome",
     "routeNotFound", "errorHandler"}

\* C17: every request that entered the chain is eventually answered; a
\* response exists exactly when the request is answered, it was sent by the
\* last stage that ran, which is a route handler, the unmatched-route stage or
\* the error handler, no earlier stage was the error handler, and after the
\* response nothing runs for the request: the error handler neither raises
\* nor passes control on.
C17_OneResponse ==
    /\ InFlight ~> Answered
    /\ [](res.status /= 0 <=> Answered)
    /\ [](Answered =>
            /\ ran /= <<>>
            /\ ran[Len(ran)] \in Responders
            /\ \A i \in 1..(Len(ran) - 1) : ran[i] \notin {"errorHandler", "routeNotFound"}
            /\ res.kind = "error" <=> ran[Len(ran)] = "errorHandler"
            /\ res.kind = "routeNotFound" <=> ran[Len(ran)] = "routeNotFound")
    /\ [][pc = "error" => (pc' = "done" /\ res'.kind = "error" /\ err' = err)]_vars
    /\ [][Answered => (pc' = "idle" /\ products' = products /\ uuids' = uuids)]_vars

\* a request no route matches was answered 404 by the unmatched-route stage
C17_Witness ==
    /\ Answered
    /\ req.route = "unmatched"
    /\ res.status = 404
    /\ ran = <<"routeNotFound">>

====
